---- MODULE Spec2Model ----
(***************************************************************************)
(* Zance chat backend: the chunked-response scheduler (app/tasks.py,       *)
(* app/sync_mongo.py), the live websocket sessions with their registry     *)
(* and bridge tasks (app/routes/chat.py, app/services/redis_pubsub.py)     *)
(* and the group AI response (app/services/ai/ai_group_service.py).        *)
(***************************************************************************)
EXTENDS Integers, Sequences, FiniteSets, Bags, TLC

VARIABLES
    conversations,      \* document store, collection "conversations"
    db_messages,        \* document store, collection "messages"
    task,               \* runs of deliver_chunks_task
    local_connections,  \* chat.py: conversation id -> list of websockets
    published,          \* the messages published on the bus so far, in order
    ws,                 \* one websocket_endpoint invocation per connection
    listener,           \* the redis_listener task of each connection
    cache,              \* redis cache used by get_ai_response
    group,              \* runs of automate_group_ai_response
    chat                \* turns of the route chat_with_ai

vars == <<conversations, db_messages, task, local_connections, published, ws,
          listener, cache, group, chat>>

schedVars == <<conversations, task>>
liveVars == <<db_messages, local_connections, published, ws, listener>>
groupVars == <<cache, group, chat>>

----------------------------------------------------------------------------
(* Bounds of the model *)

MaxPlan == 2        \* longest chunk plan handed to deliver_chunks_task
MaxInbox == 2       \* messages published on the bus in one behaviour
MaxInvalid == 1     \* malformed payloads sent on one connection
MaxRuns == 2        \* runs of automate_group_ai_response in one behaviour
MaxTurns == 2       \* requests to chat_with_ai in one behaviour

----------------------------------------------------------------------------
(* Values *)

None == "None"

\* the conversation ids of the store; FreshId is the id insert_one gives to
\* the conversation a request without chat_id creates
FreshId == "c4"
ConvIds == {"c1", "c2", "c3", FreshId}
BadId == "not-an-object-id"
Users == {"u1", "u2"}
Ais == {"ai1"}

Contents == {"Hi", "there"}
Delays == {-1, 0, 2}

\* dict.get(key) of a history entry: None when the key is missing
Get(msg, key) == IF key \in DOMAIN msg THEN msg[key] ELSE None

AssistantEntry(content) == [role |-> "assistant", content |-> content]
UserEntry(sender, content) == [role |-> "user", sender |-> sender, content |-> content]
SystemEntry(content) == [role |-> "system", content |-> content]

NoDoc == [exists |-> FALSE, conversation_type |-> None, participants |-> <<>>,
          history |-> <<>>, interrupted |-> FALSE]

InitialHistories == {<<>>, <<UserEntry("u2", "hi all"), AssistantEntry("Hi")>>}

InitialDocs(h) ==
    [c \in ConvIds |->
        IF c = "c1"
        THEN [exists |-> TRUE, conversation_type |-> "group",
              participants |-> <<"u1", "ai1">>, history |-> h,
              interrupted |-> FALSE]
        ELSE IF c = "c2"
        THEN [exists |-> TRUE, conversation_type |-> "dm",
              participants |-> <<"u1", "u2">>, history |-> <<>>,
              interrupted |-> FALSE]
        ELSE IF c = "c3"
        THEN [exists |-> TRUE, conversation_type |-> "group",
              participants |-> <<"u1", "u2">>, history |-> h,
              interrupted |-> FALSE]
        ELSE NoDoc]

SeqsUpTo(S, n) == UNION {[1..m -> S] : m \in 0..n}

ChunkInfo == [content : Contents, delay_seconds : Delays]
Plans == SeqsUpTo(ChunkInfo, MaxPlan)

----------------------------------------------------------------------------
(* app/sync_mongo.py *)

\* ObjectId(conversation_id) raises for a malformed id
ValidObjectId(id) == id \in ConvIds

get_sync_conversation_by_id(db, conversation_id) ==
    IF ~ValidObjectId(conversation_id) THEN NoDoc
    ELSE IF db[conversation_id].exists THEN db[conversation_id] ELSE NoDoc

\* update_doc = {"history": history}, plus "interrupted" when it is not None;
\* interrupted is {} for None and {b} for a boolean b
SetFieldsMut(doc, history, interrupted) ==
    [doc EXCEPT !.history = history, !.interrupted = FALSE]
SetFields(doc, history, interrupted) ==
    [doc EXCEPT !.history = history,
                !.interrupted = IF interrupted = {} THEN @
                                ELSE CHOOSE b \in interrupted : TRUE]

\* result.modified_count of update_one({"_id": oid}, {"$set": update_doc})
ModifiedCountMut(db, conversation_id, history, interrupted) == 0
ModifiedCount(db, conversation_id, history, interrupted) ==
    IF ValidObjectId(conversation_id)
       /\ db[conversation_id].exists
       /\ SetFields(db[conversation_id], history, interrupted) # db[conversation_id]
    THEN 1 ELSE 0

StoreHistoryOf(db, conversation_id) ==
    get_sync_conversation_by_id(db, conversation_id).history

\* the store after update_one
UpdateOne(db, conversation_id, history, interrupted) ==
    IF ModifiedCount(db, conversation_id, history, interrupted) = 1
    THEN [db EXCEPT ![conversation_id] = SetFields(@, history, interrupted)]
    ELSE db

----------------------------------------------------------------------------
(* app/tasks.py: deliver_chunks_task *)

Tasks == {"t1"}

IdleTask == [pc |-> "idle", chat_id |-> None, chunks |-> <<>>, k |-> 0,
             conversation_history |-> <<>>, outcome |-> None,
             \* history variables of the run
             history0 |-> <<>>, written |-> <<>>, seen_interrupted |-> 0,
             flag_clear |-> FALSE, history_kept |-> FALSE,
             \* the chunks whose history write was attempted, and the chunk
             \* before which the conversation was not found
             attempted |-> <<>>, missing_at |-> 0,
             \* what the request path did to the flag since the check for
             \* the current chunk (0 nothing, 1 set, 2 set and cleared), and
             \* the chunk whose write came after a set and a clear
             window |-> 0, stray |-> 0]

Running(t) == task[t].pc \notin {"idle", "done"}

\* conversation_doc.get("interrupted", False)
IsInterruptedMut(conversation_doc) == FALSE
IsInterrupted(conversation_doc) == conversation_doc.interrupted

\* conversation_history.append({"role": "assistant", "content": chunk_content})
AppendChunkMut(conversation_history, chunk_info) ==
    <<AssistantEntry(chunk_info.content)>> \o conversation_history
AppendChunk(conversation_history, chunk_info) ==
    Append(conversation_history, AssistantEntry(chunk_info.content))

\* "if not conversation_doc"
NotFoundMut(conversation_doc) == FALSE
NotFound(conversation_doc) == ~conversation_doc.exists

\* "if not update_result: ... break"
StopDeliveryMut(tk) == [tk EXCEPT !.pc = "update"]
StopDelivery(tk) == [tk EXCEPT !.pc = "done", !.outcome = "not_modified"]

\* "if conversation_doc.get("interrupted", False): ... break": the loop is left
\* and the function returns
StopInterruptedMut(tk) == [tk EXCEPT !.pc = "sleep", !.outcome = "interrupted"]
StopInterrupted(tk) == [tk EXCEPT !.pc = "done", !.outcome = "interrupted"]

\* for chunk_info in chunks: the position after chunk k, or the end of the loop
AfterChunkMut(tk) == [tk EXCEPT !.pc = "sleep"]
AfterChunk(tk) ==
    IF tk.k < Len(tk.chunks)
    THEN [tk EXCEPT !.k = @ + 1, !.pc = "sleep"]
    ELSE [tk EXCEPT !.pc = "done", !.outcome = "completed"]

\* the worker picks the task up with its arguments
StartDeliver(t, chat_id, chunks) ==
    /\ task[t].pc = "idle"
    /\ LET d == get_sync_conversation_by_id(conversations, chat_id)
           started == [task[t] EXCEPT !.chat_id = chat_id, !.chunks = chunks,
                                      !.history0 = d.history,
                                      !.flag_clear = d.exists /\ ~d.interrupted,
                                      !.history_kept = d.exists]
       IN task' = [task EXCEPT ![t] =
             IF Len(chunks) = 0
             THEN [started EXCEPT !.pc = "done", !.outcome = "completed"]
             ELSE [started EXCEPT !.pc = "sleep", !.k = 1]]
    /\ UNCHANGED <<conversations, liveVars, groupVars>>

\* time.sleep(delay_seconds): a negative delay raises ValueError and ends the task
SleepMut(t) == task[t].pc = "sleep" /\ UNCHANGED vars
Sleep(t) ==
    /\ task[t].pc = "sleep"
    /\ task' = [task EXCEPT ![t] =
          IF @.chunks[@.k].delay_seconds < 0
          THEN [@ EXCEPT !.pc = "done", !.outcome = "ValueError"]
          ELSE [@ EXCEPT !.pc = "fetch"]]
    /\ UNCHANGED <<conversations, liveVars, groupVars>>

\* fetch the latest conversation, the two checks, the local append
Fetch(t) ==
    /\ task[t].pc = "fetch"
    /\ LET conversation_doc ==
               get_sync_conversation_by_id(conversations, task[t].chat_id)
           seen == IF task[t].seen_interrupted = 0
                      /\ conversation_doc.exists /\ conversation_doc.interrupted
                   THEN task[t].k ELSE task[t].seen_interrupted
           missing == IF task[t].missing_at = 0 /\ ~conversation_doc.exists
                      THEN task[t].k ELSE task[t].missing_at
       IN task' = [task EXCEPT ![t] =
            IF NotFound(conversation_doc)
            THEN [@ EXCEPT !.pc = "done", !.outcome = "not_found",
                           !.missing_at = missing]
            ELSE IF IsInterrupted(conversation_doc)
            THEN StopInterrupted([@ EXCEPT !.seen_interrupted = seen])
            ELSE [@ EXCEPT !.pc = "update", !.seen_interrupted = seen,
                           !.missing_at = missing,
                           !.conversation_history =
                               AppendChunk(conversation_doc.history,
                                           task[t].chunks[task[t].k])]]
    /\ UNCHANGED <<conversations, liveVars, groupVars>>

\* update_sync_conversation_history up to result.modified_count
Update(t) ==
    /\ task[t].pc = "update"
    /\ LET n == ModifiedCount(conversations, task[t].chat_id,
                              task[t].conversation_history, {})
       IN /\ conversations' = UpdateOne(conversations, task[t].chat_id,
                                        task[t].conversation_history, {})
          /\ task' = [task EXCEPT ![t] =
                IF n = 1
                THEN [@ EXCEPT !.pc = "result", !.written = Append(@, task[t].k),
                               !.attempted = Append(@, task[t].k),
                               !.window = 0,
                               !.stray = IF task[t].window = 2
                                         THEN task[t].k ELSE @]
                ELSE StopDelivery([@ EXCEPT !.attempted = Append(@, task[t].k),
                                            !.window = 0,
                                            !.stray = IF task[t].window = 2
                                                      THEN task[t].k ELSE @])]
    /\ UNCHANGED <<liveVars, groupVars>>

\* update_one raises (the store cannot be reached): nothing catches it, the
\* exception ends the task
UpdateFails(t) ==
    /\ task[t].pc = "update"
    /\ task' = [task EXCEPT ![t] =
          [@ EXCEPT !.pc = "done", !.outcome = "PyMongoError",
                    !.attempted = Append(@, task[t].k)]]
    /\ UNCHANGED <<conversations, liveVars, groupVars>>

\* update_sync_conversation_history returns the document fetched again;
\* "if not update_result: break"
Result(t) ==
    /\ task[t].pc = "result"
    /\ LET update_result ==
               get_sync_conversation_by_id(conversations, task[t].chat_id)
       IN task' = [task EXCEPT ![t] =
            IF ~update_result.exists
            THEN StopDelivery(@)
            ELSE AfterChunk(@)]
    /\ UNCHANGED <<conversations, liveVars, groupVars>>

----------------------------------------------------------------------------
(* Other writers of the conversation document *)

\* history variables: a write of the flag (of the history) by somebody else
\* than run t since t started
FlagTouched(c) ==
    [t \in Tasks |->
        IF task[t].pc # "idle" /\ task[t].chat_id = c
        THEN [task[t] EXCEPT !.flag_clear = FALSE] ELSE task[t]]

HistoryTouched(c) ==
    [t \in Tasks |->
        IF task[t].pc # "idle" /\ task[t].chat_id = c
        THEN [task[t] EXCEPT !.history_kept = FALSE] ELSE task[t]]

\* history variable: the flag is written with b while run tk, on conversation
\* c, is between its check and its write
RaceWindow(tk, c, b) ==
    IF tk.pc = "update" /\ tk.chat_id = c
    THEN [tk EXCEPT !.window = IF b THEN 1 ELSE IF @ = 1 THEN 2 ELSE @]
    ELSE tk

\* the request path of a new turn persists interrupted = true
RequestInterrupt(c) ==
    /\ conversations[c].exists
    /\ ~conversations[c].interrupted
    /\ conversations' = [conversations EXCEPT ![c].interrupted = TRUE]
    /\ task' = [t \in Tasks |-> RaceWindow(FlagTouched(c)[t], c, TRUE)]
    /\ UNCHANGED <<liveVars, groupVars>>

\* ... and clears it once the new reply is computed
RequestClear(c) ==
    /\ conversations[c].exists
    /\ conversations[c].interrupted
    /\ conversations' = [conversations EXCEPT ![c].interrupted = FALSE]
    /\ task' = [t \in Tasks |-> RaceWindow(FlagTouched(c)[t], c, FALSE)]
    /\ UNCHANGED <<liveVars, groupVars>>

\* the conversation is deleted concurrently
StoreDelete(c) ==
    /\ conversations[c].exists
    /\ conversations' = [conversations EXCEPT ![c] = NoDoc]
    /\ task' = HistoryTouched(c)
    /\ UNCHANGED <<liveVars, groupVars>>

----------------------------------------------------------------------------
(* app/utils/auth.py and the tokens a client may present *)

Tokens == {"", "garbage", "expired", "nosub", "tok_u1", "tok_u3"}

\* jwt.decode: the payload, or the HTTPException raised for a bad token
decode_access_token(token) ==
    CASE token = "tok_u1" -> [raised |-> None, sub |-> "u1"]
      [] token = "tok_u3" -> [raised |-> None, sub |-> "u3"]
      [] token = "nosub" -> [raised |-> None, sub |-> None]
      [] OTHER -> [raised |-> "HTTPException", sub |-> None]

----------------------------------------------------------------------------
(* app/repositories/conversation_repository.py, app/services/conversation_service.py *)

\* get_conversation_by_id, then get_conversation: raises when the id is
\* malformed (400) or no document is found (404)
get_conversation(db, conversation_id) ==
    IF ~ValidObjectId(conversation_id) \/ ~db[conversation_id].exists
    THEN [raised |-> "HTTPException", doc |-> NoDoc]
    ELSE [raised |-> None, doc |-> db[conversation_id]]

\* parameters of the repository's update_conversation_history_record
RepoParamsMut == <<"conversation_id", "history", "interrupted">>
RepoParams == <<"conversation_id", "history">>

\* the repository's update_conversation_history_record(conversation_id, history)
update_conversation_history_record_repo(db, conversation_id, history) ==
    IF ~ValidObjectId(conversation_id)
    THEN [raised |-> "HTTPException", db |-> db]
    ELSE IF ModifiedCount(db, conversation_id, history, {}) = 1
    THEN [raised |-> None, db |-> UpdateOne(db, conversation_id, history, {})]
    ELSE [raised |-> "HTTPException", db |-> db]

\* the service's update_conversation_history_record: it hands args (three
\* positional arguments) to the repository function; a call with more
\* positional arguments than parameters raises TypeError before the callee runs
update_conversation_history_record_2args(db, args) ==
    update_conversation_history_record_repo(db, args[1], args[2])
update_conversation_history_record(db, args) ==
    IF Len(args) > Len(RepoParams)
    THEN [raised |-> "TypeError", db |-> db]
    ELSE update_conversation_history_record_repo(db, args[1], args[2])

----------------------------------------------------------------------------
(* app/services/redis_pubsub.py *)

Subscribed(w) == listener[w].state \in {"listening", "forwarding"}

\* json.dumps(message, default=json_serializer) then json.loads in the
\* subscriber: a datetime comes out as its ISO text
JsonRoundTrip(message) ==
    [k \in DOMAIN message |->
        IF k = "timestamp" /\ message[k] = "datetime" THEN "isoformat"
        ELSE message[k]]

\* redis_client.publish(channel, message_json): every current subscription of
\* the channel gets the message
Deliver(ls, channel, message) ==
    [w \in DOMAIN ls |->
        IF ls[w].state \in {"listening", "forwarding"} /\ ls[w].channel = channel
        THEN [ls[w] EXCEPT !.queue = Append(@, JsonRoundTrip(message)),
                           !.heard = Append(@, message._id)]
        ELSE ls[w]]

----------------------------------------------------------------------------
(* app/services/redis_service.py and app/services/ai/ai_service.py *)

\* what the text-generation call returns: a reply, or a failure
Replies == {"Hi", "42"}
LlmFails == "fail"

\* get_cached_value: a stored text that parses as JSON comes back parsed
JsonLoaded(value) == IF value = "42" THEN "int:42" ELSE value

get_cached_value(store, key) ==
    IF \E e \in store : e.key = key
    THEN JsonLoaded((CHOOSE e \in store : e.key = key).value)
    ELSE None

\* set_cached_value: redis SET replaces the value of the key
set_cached_value(store, key, value) ==
    {e \in store : e.key # key} \cup {[key |-> key, value |-> value]}

\* get_ai_response(prompt, conversation_history): the response, the
\* caller's list as the function leaves it, and the cache
AppendsReplyMut(conversation_history, ai_response) == conversation_history
AppendsReply(conversation_history, ai_response) ==
    Append(conversation_history, AssistantEntry(ai_response))

get_ai_response(store, prompt, conversation_history, llm) ==
    LET cache_key == <<prompt, conversation_history>>
        cached_response == get_cached_value(store, cache_key)
    IN IF prompt = <<>>
          \/ \E i \in 1..Len(conversation_history) :
                 ~({"role", "content"} \subseteq DOMAIN conversation_history[i])
       THEN [raised |-> "ValueError", response |-> None,
             history |-> conversation_history, cache |-> store]
       ELSE IF cached_response # None
       THEN [raised |-> None, response |-> cached_response,
             history |-> conversation_history, cache |-> store]
       ELSE IF llm = LlmFails
       THEN [raised |-> "HTTPException", response |-> None,
             history |-> conversation_history, cache |-> store]
       ELSE [raised |-> None, response |-> llm,
             history |-> AppendsReply(conversation_history, llm),
             cache |-> set_cached_value(store, cache_key, llm)]

\* the cached responses expire (expire=3600)
CacheExpire ==
    /\ cache # {}
    /\ cache' = {}
    /\ UNCHANGED <<group, chat, schedVars, liveVars>>

----------------------------------------------------------------------------
(* app/services/ai/ai_group_service.py: automate_group_ai_response *)

NoRun == [runs |-> 0, conversation_id |-> None, outcome |-> None,
          ai_response |-> None, history |-> <<>>,
          \* history variables: the persisted history before and after the run,
          \* the receive loops going on and the messages saved when it ran
          before |-> <<>>, after |-> <<>>, live_then |-> {}, saved_then |-> 0]

\* get_ai_by_id: the AI document of a participant id, if there is one
IsAi(pid) == pid \in Ais
AiName(pid) == IF pid = "ai1" THEN "Nova" ELSE "AI"

\* the first participant that is an AI, or None
FindAi(participants) ==
    IF \E i \in 1..Len(participants) : IsAi(participants[i])
    THEN participants[CHOOSE i \in 1..Len(participants) :
             IsAi(participants[i]) /\ \A j \in 1..(i - 1) : ~IsAi(participants[j])]
    ELSE None

\* lines 115-129: the system prompt of the group
GroupPrompt(ai_id, participants) ==
    IF ai_id # None THEN <<"You are", AiName(ai_id), participants>>
    ELSE <<"This is a group chat", participants>>

HasRole(history, role) == \E i \in 1..Len(history) : Get(history[i], "role") = role

FirstWithRole(history, role) ==
    CHOOSE i \in 1..Len(history) :
        Get(history[i], "role") = role
        /\ \A j \in 1..(i - 1) : Get(history[j], "role") # role

LastWithRole(history, role) ==
    CHOOSE i \in 1..Len(history) :
        Get(history[i], "role") = role
        /\ \A j \in (i + 1)..Len(history) : Get(history[j], "role") # role

\* lines 131-138: insert the system prompt at position 0 or replace the first one
EnsureSystem(history, group_prompt) ==
    IF ~HasRole(history, "system")
    THEN <<SystemEntry(group_prompt)>> \o history
    ELSE [history EXCEPT ![FirstWithRole(history, "system")] = SystemEntry(group_prompt)]

\* what a run may end with when it raises
GroupExceptions == {"HTTPException", "NameError", "Exception", "TypeError"}

\* asyncio.create_task(automate_group_ai_response(conversation_id)): the task
\* is not awaited, what it raises stays in the task object; sockets are the
\* receive loops as the end of the task leaves them
create_taskMut(sockets, conversation_id, outcome) ==
    [w \in DOMAIN sockets |->
        IF /\ outcome \in GroupExceptions
           /\ sockets[w].state = "open"
           /\ sockets[w].conversation_id = conversation_id
        THEN [sockets[w] EXCEPT !.state = "failed"] ELSE sockets[w]]
create_task(sockets, conversation_id, outcome) == sockets

\* one run of automate_group_ai_response(conversation_id); llm is what the
\* text-generation call would return
GroupRun(conversation_id, llm) ==
    /\ group.runs < MaxRuns
    /\ LET fetched == get_conversation(conversations, conversation_id)
           conversation == fetched.doc
           ai_id == FindAi(conversation.participants)
           history1 == EnsureSystem(conversation.history,
                                    GroupPrompt(ai_id, conversation.participants))
           has_user == HasRole(history1, "user")
           last == history1[LastWithRole(history1, "user")]
           ai_input == <<"As", AiName(ai_id), Get(last, "sender"), last.content>>
           answer == get_ai_response(cache, ai_input, history1, llm)
           history2 == Append(answer.history, AssistantEntry(answer.response))
           updated == update_conversation_history_record(
                          conversations, <<conversation_id, history2, FALSE>>)
           run == [NoRun EXCEPT !.runs = group.runs + 1,
                                !.conversation_id = conversation_id,
                                !.before = StoreHistoryOf(conversations, conversation_id),
                                !.live_then = {w \in DOMAIN ws : ws[w].state = "open"},
                                !.saved_then = Len(db_messages)]
       IN IF fetched.raised # None
          THEN /\ group' = [run EXCEPT !.outcome = fetched.raised,
                                       !.after = run.before]
               /\ UNCHANGED <<cache, conversations, task>>
          ELSE IF conversation.conversation_type # "group"
          THEN /\ group' = [run EXCEPT !.outcome = "skipped", !.after = run.before]
               /\ UNCHANGED <<cache, conversations, task>>
          ELSE IF ~has_user
          THEN /\ group' = [run EXCEPT !.outcome = "no_user_message",
                                       !.history = history1, !.after = run.before]
               /\ UNCHANGED <<cache, conversations, task>>
          ELSE IF ai_id = None
          THEN /\ group' = [run EXCEPT !.outcome = "NameError",
                                       !.history = history1, !.after = run.before]
               /\ UNCHANGED <<cache, conversations, task>>
          ELSE IF answer.raised # None
          THEN /\ group' = [run EXCEPT !.outcome = "Exception",
                                       !.history = answer.history,
                                       !.after = run.before]
               /\ cache' = answer.cache
               /\ UNCHANGED <<conversations, task>>
          ELSE /\ group' = [run EXCEPT
                       !.outcome = IF updated.raised # None THEN updated.raised
                                   ELSE "updated",
                       !.ai_response = answer.response,
                       !.history = history2,
                       !.after = StoreHistoryOf(updated.db, conversation_id)]
               /\ cache' = answer.cache
               /\ conversations' = updated.db
               /\ task' = IF updated.raised = None
                           THEN HistoryTouched(conversation_id) ELSE task
    /\ ws' = create_task(ws, conversation_id, group'.outcome)
    /\ UNCHANGED <<db_messages, local_connections, published, listener, chat>>

----------------------------------------------------------------------------
(* app/routes/ai_chat.py: chat_with_ai *)

NoTurn == [turns |-> 0, chat_id |-> None, outcome |-> None,
           ai_response |-> None, history |-> <<>>,
           \* history variables: the history handed to get_ai_response, whether
           \* the response came from the cache, the persisted history before
           \* and after the turn
           asked |-> <<>>, cached |-> FALSE, before |-> <<>>, after |-> <<>>]

\* request.message as the prompt of get_ai_response: an empty or blank
\* message is an empty prompt
ChatPrompt(message) == IF message = "" THEN <<>> ELSE <<message>>

\* lines 86-89: the system prompt built from the AI's details
SystemMessage(ai_id) == <<"You are", AiName(ai_id), "with personality">>

\* {"role": "user", "content": request.message}
ChatUserEntry(message) == [role |-> "user", content |-> message]

\* lines 119-120: insert the system message at position 0 when the history
\* holds no system entry
InsertSystemMut(history, system_message) ==
    Append(history, SystemEntry(system_message))
InsertSystem(history, system_message) ==
    IF ~HasRole(history, "system")
    THEN <<SystemEntry(system_message)>> \o history
    ELSE history

\* lines 136-140: append the response unless an assistant entry with this
\* content is in the history already
AppendIfNew(history, ai_response) ==
    IF \E i \in 1..Len(history) :
           /\ Get(history[i], "role") = "assistant"
           /\ Get(history[i], "content") = ai_response
    THEN history
    ELSE Append(history, AssistantEntry(ai_response))

\* create_new_conversation(conversation_data, skip_participant_check=True)
NewAiConversation(user_id, ai_id) ==
    [exists |-> TRUE, conversation_type |-> "ai",
     participants |-> <<user_id, ai_id>>, history |-> <<>>,
     interrupted |-> FALSE]

\* one request POST /{ai_id}; chat_id is None when the request has none, llm
\* is what the text-generation call would return
ChatTurn(ai_id, token, chat_id, message, llm) ==
    /\ chat.turns < MaxTurns
    /\ chat_id = None => ~conversations[FreshId].exists
    /\ LET payload == decode_access_token(token)
           fetched == get_conversation(conversations, chat_id)
           id == IF chat_id = None THEN FreshId ELSE chat_id
           db1 == IF chat_id = None
                  THEN [conversations EXCEPT
                            ![FreshId] = NewAiConversation(payload.sub, ai_id)]
                  ELSE conversations
           history1 == InsertSystem(IF chat_id = None THEN <<>>
                                    ELSE fetched.doc.history,
                                    SystemMessage(ai_id))
           history2 == Append(history1, ChatUserEntry(message))
           answer == get_ai_response(cache, ChatPrompt(message), history2, llm)
           history3 == AppendIfNew(answer.history, answer.response)
           updated == update_conversation_history_record(
                          db1, <<id, history3, FALSE>>)
           turn == [NoTurn EXCEPT !.turns = chat.turns + 1, !.chat_id = chat_id]
       IN IF payload.raised # None \/ payload.sub = None
          THEN /\ chat' = [turn EXCEPT !.outcome = "HTTPException"]
               /\ UNCHANGED <<cache, conversations, task>>
          ELSE IF ~IsAi(ai_id)
          THEN /\ chat' = [turn EXCEPT !.outcome = "HTTPException"]
               /\ UNCHANGED <<cache, conversations, task>>
          ELSE IF chat_id # None /\ fetched.raised # None
          THEN /\ chat' = [turn EXCEPT !.outcome = fetched.raised]
               /\ UNCHANGED <<cache, conversations, task>>
          ELSE IF answer.raised # None
          THEN /\ chat' = [turn EXCEPT !.chat_id = id,
                                       !.outcome = "HTTPException",
                                       !.asked = history2,
                                       !.history = answer.history,
                                       !.before = StoreHistoryOf(db1, id),
                                       !.after = StoreHistoryOf(db1, id)]
               /\ cache' = answer.cache
               /\ conversations' = db1
               /\ task' = task
          ELSE /\ chat' = [turn EXCEPT
                       !.chat_id = id,
                       !.outcome = IF updated.raised # None THEN updated.raised
                                   ELSE "returned",
                       !.ai_response = answer.response,
                       !.asked = history2,
                       !.cached = (answer.cache = cache),
                       !.history = history3,
                       !.before = StoreHistoryOf(db1, id),
                       !.after = StoreHistoryOf(updated.db, id)]
               /\ cache' = answer.cache
               /\ conversations' = updated.db
               /\ task' = IF updated.raised = None
                           THEN HistoryTouched(id) ELSE task
    /\ UNCHANGED <<group, liveVars>>

----------------------------------------------------------------------------
(* app/routes/chat.py: websocket_endpoint *)

Conns == {"w1", "w2"}

PolicyViolation == 1008

NewSocket == [state |-> "new", token |-> "", conversation_id |-> None,
              user_id |-> None, accepted |-> FALSE, close_code |-> 0,
              found |-> FALSE,
              message_obj |-> [sender |-> "", content |-> ""],
              saved_message |-> 0, invalid |-> 0, diagnostics |-> <<>>,
              handled |-> 0, spawned |-> 0,
              got |-> EmptyBag, refused |-> {}, gone_at |-> 0,
              \* history variable: a scheduler run was delivering to the
              \* conversation when the last message came in
              overlap |-> FALSE]

NoListener == [state |-> "none", channel |-> None, queue |-> <<>>,
               message |-> 0, i |-> 0,
               \* the channel is subscribed at the bus for this task
               sub |-> FALSE,
               \* history variables of the for loop going on: the bucket when
               \* it started, the connections send_text was called on
               start_bucket |-> <<>>, sent |-> <<>>,
               \* history variables: the messages the subscription was given,
               \* and how many of them the for loop has been through
               heard |-> <<>>, forwarded |-> 0]

\* payloads a client may send
BadJson == [raw |-> "{oops"]
Payloads == {BadJson, [content |-> "hello"],
             [sender |-> "u1", content |-> "hello"],
             [sender |-> "", content |-> "hello"]}

\* json.loads(data)
IsJson(data) == "raw" \notin DOMAIN data
\* Message(**message_data): sender and content are required
FitsMessage(message_data) == {"sender", "content"} \subseteq DOMAIN message_data

Live(w) == ws[w].state \in {"open", "saved"}
Ended(w) == ws[w].state \in {"disconnected", "failed"}

\* user_id not in conversation.get("participants", [])
IsParticipantMut(user_id, conversation) == TRUE
IsParticipant(user_id, conversation) ==
    \E i \in 1..Len(conversation.participants) : conversation.participants[i] = user_id

\* the checks before websocket.accept(): TRUE when the connection is refused
Refused(token, conversation_id) ==
    LET payload == decode_access_token(token)
        conversation == get_conversation(conversations, conversation_id)
    IN \/ token = ""
       \/ payload.raised # None
       \/ payload.sub = None
       \/ conversation.raised # None
       \/ ~IsParticipant(payload.sub, conversation.doc)

\* local_connections[conversation_id].append(websocket)
Register(lc, conversation_id, w) ==
    [lc EXCEPT ![conversation_id] = Append(@, w)]

\* local_connections[conversation_id].remove(websocket): the first occurrence
RemoveFirst(seq, w) ==
    IF \E i \in 1..Len(seq) : seq[i] = w
    THEN LET i == CHOOSE i \in 1..Len(seq) :
                      seq[i] = w /\ \A j \in 1..(i - 1) : seq[j] # w
         IN [j \in 1..(Len(seq) - 1) |-> IF j < i THEN seq[j] ELSE seq[j + 1]]
    ELSE seq

UnregisterMut(lc, conversation_id, w) == lc
Unregister(lc, conversation_id, w) ==
    IF conversation_id \in DOMAIN lc
    THEN [lc EXCEPT ![conversation_id] = RemoveFirst(@, w)]
    ELSE lc

\* listener_task.cancel() in the finally clause
CancelListenerMut(ls, w, how) ==
    IF how = "disconnect"
    THEN [ls EXCEPT ![w].state = "cancelled", ![w].queue = <<>>,
                    ![w].message = 0, ![w].i = 0,
                    ![w].start_bucket = <<>>, ![w].sent = <<>>]
    ELSE ls
CancelListener(ls, w, how) ==
    [ls EXCEPT ![w].state = "cancelled", ![w].queue = <<>>,
               ![w].message = 0, ![w].i = 0,
               ![w].start_bucket = <<>>, ![w].sent = <<>>]

\* history variable: the store holds the conversation when the endpoint looks
StoreHas(conversation_id) ==
    conversation_id \in ConvIds /\ conversations[conversation_id].exists

\* lines 39-102: the handshake, the registration, the bridge task
Connect(w, token, conversation_id) ==
    /\ ws[w].state = "new"
    /\ IF Refused(token, conversation_id)
       THEN /\ ws' = [ws EXCEPT ![w] =
                     [@ EXCEPT !.state = "closed", !.token = token,
                               !.conversation_id = conversation_id,
                               !.found = StoreHas(conversation_id),
                               !.close_code = PolicyViolation]]
            /\ UNCHANGED <<local_connections, listener>>
       ELSE /\ ws' = [ws EXCEPT ![w] =
                     [@ EXCEPT !.state = "open", !.token = token,
                               !.conversation_id = conversation_id,
                               !.user_id = decode_access_token(token).sub,
                               !.found = StoreHas(conversation_id),
                               !.accepted = TRUE]]
            /\ local_connections' = Register(local_connections, conversation_id, w)
            /\ listener' = [listener EXCEPT ![w] =
                     [@ EXCEPT !.state = "created", !.channel = conversation_id]]
    /\ UNCHANGED <<db_messages, published, schedVars, groupVars>>

\* receive_text raises WebSocketDisconnect: the except clause, then finally
Disconnect(w) ==
    /\ ws[w].state = "open"
    /\ ws' = [ws EXCEPT ![w].state = "disconnected",
                        ![w].gone_at = Len(published)]
    /\ local_connections' = Unregister(local_connections, ws[w].conversation_id, w)
    /\ listener' = CancelListener(listener, w, "disconnect")
    /\ UNCHANGED <<db_messages, published, schedVars, groupVars>>

\* the receive loop is cancelled while it waits in receive_text (the process
\* shuts down): CancelledError passes the except clause, finally runs
ShutdownCancel(w) ==
    /\ ws[w].state = "open"
    /\ ws' = [ws EXCEPT ![w].state = "failed"]
    /\ listener' = CancelListener(listener, w, "cancelled")
    /\ UNCHANGED <<db_messages, local_connections, published, schedVars, groupVars>>

\* websocket.send_text(...) of lines 111 and 118, then "continue"
SendDiagnosticMut(socket, data) == [socket EXCEPT !.state = "failed"]
SendDiagnostic(socket, data) ==
    [socket EXCEPT !.diagnostics =
        Append(@, IF ~IsJson(data) THEN "Invalid message format. Please send JSON."
                  ELSE "Error in message data")]

\* lines 107-119: a payload that is not JSON or does not fit Message gets a
\* diagnostic text and the loop continues
ReceiveInvalid(w, data) ==
    /\ ws[w].state = "open"
    /\ ~IsJson(data) \/ ~FitsMessage(data)
    /\ ws[w].invalid < MaxInvalid
    /\ ws' = [ws EXCEPT ![w] = SendDiagnostic([@ EXCEPT !.invalid = @ + 1], data)]
    /\ UNCHANGED <<db_messages, local_connections, published, listener,
                   schedVars, groupVars>>

\* chat_repository.save_message: insert_one into the messages collection; the
\* document carries the conversation id, the timestamp Message added, its _id
save_messageMut(messages, conversation_id, message_data) == messages
save_message(messages, conversation_id, message_data) ==
    Append(messages, [_id |-> Len(messages) + 1,
                      conversation_id |-> conversation_id,
                      sender |-> message_data.sender,
                      content |-> message_data.content,
                      timestamp |-> "datetime"])

\* lines 107-122: a well-formed payload is saved by send_message
ReceiveSave(w, data) ==
    /\ ws[w].state = "open"
    /\ IsJson(data) /\ FitsMessage(data)
    /\ db_messages' = save_message(db_messages, ws[w].conversation_id, data)
    /\ ws' = [ws EXCEPT ![w].state = "saved", ![w].message_obj = data,
                        ![w].saved_message = Len(db_messages) + 1,
                        ![w].spawned = 0,
                        ![w].overlap =
                            \E t \in Tasks : /\ Running(t)
                                             /\ task[t].chat_id = ws[w].conversation_id]
    /\ UNCHANGED <<local_connections, published, listener, schedVars, groupVars>>

\* lines 143-148: the first trigger
FirstTrigger(conversation, message_obj) ==
    IF conversation.conversation_type = "group" /\ message_obj.sender # ""
    THEN 1 ELSE 0

\* lines 153-163: the second trigger, guarded by the history of the local copy
SecondTrigger(conv, conversation, message_obj) ==
    IF /\ conv.conversation_type = "group"
       /\ message_obj.sender # ""
       /\ ~\E i \in 1..Len(conversation.history) :
              Get(conversation.history[i], "role") = "assistant"
    THEN 1 ELSE 0

\* lines 124-163 and 170-171: the history update, the publish, the triggers;
\* an exception leaves the loop through the finally clause only
RecordHistory(w) ==
    /\ ws[w].state = "saved"
    /\ LET conversation_id == ws[w].conversation_id
           message_obj == ws[w].message_obj
           fetched == get_conversation(conversations, conversation_id)
           history == Append(fetched.doc.history,
                             UserEntry(message_obj.sender, message_obj.content))
           conversation == [fetched.doc EXCEPT !.history = history]
           updated == update_conversation_history_record(
                          conversations, <<conversation_id, history, FALSE>>)
           conv == get_conversation(updated.db, conversation_id)
           failed == fetched.raised # None \/ updated.raised # None
                     \/ conv.raised # None
           saved_message == db_messages[ws[w].saved_message]
       IN /\ conversations' = IF fetched.raised = None THEN updated.db
                               ELSE conversations
          /\ task' = IF fetched.raised = None /\ updated.raised = None
                      THEN HistoryTouched(conversation_id) ELSE task
          /\ IF fetched.raised = None /\ updated.raised = None
             THEN /\ published' = Append(published, saved_message)
                  /\ IF conv.raised = None
                     THEN /\ ws' = [ws EXCEPT ![w].state = "open",
                                 ![w].handled = @ + 1,
                                 ![w].spawned =
                                     FirstTrigger(conversation, message_obj)
                                     + SecondTrigger(conv.doc, conversation, message_obj)]
                          /\ listener' = Deliver(listener, conversation_id, saved_message)
                     ELSE /\ ws' = [ws EXCEPT ![w].state = "failed",
                                 ![w].handled = @ + 1,
                                 ![w].spawned = FirstTrigger(conversation, message_obj)]
                          /\ listener' = CancelListener(
                                 Deliver(listener, conversation_id, saved_message),
                                 w, "exception")
             ELSE /\ published' = published
                  /\ ws' = [ws EXCEPT ![w].state = "failed", ![w].handled = @ + 1]
                  /\ listener' = CancelListener(listener, w, "exception")
    /\ UNCHANGED <<db_messages, local_connections, groupVars>>

----------------------------------------------------------------------------
(* app/routes/chat.py: redis_listener, the bridge task of a connection *)

\* the task starts running: subscribe_to_channel subscribes
ListenerSubscribe(w) ==
    /\ listener[w].state = "created"
    /\ listener' = [listener EXCEPT ![w].state = "listening", ![w].sub = TRUE]
    /\ UNCHANGED <<db_messages, local_connections, published, ws,
                   schedVars, groupVars>>

\* another process (or this one) publishes on a conversation's channel
Publish(conversation_id) ==
    /\ Len(published) < MaxInbox
    /\ LET message == [_id |-> 100 + Len(published),
                       conversation_id |-> conversation_id,
                       sender |-> "u2", content |-> "hello",
                       timestamp |-> "isoformat"]
       IN /\ published' = Append(published, message)
          /\ listener' = Deliver(listener, conversation_id, message)
    /\ UNCHANGED <<db_messages, local_connections, ws, schedVars, groupVars>>

\* async for message in subscribe_to_channel(...): the next message arrives,
\* the for loop over the bucket starts
ForwardStart(w) ==
    /\ listener[w].state = "listening"
    /\ listener[w].queue # <<>>
    /\ listener' = [listener EXCEPT ![w].state = "forwarding",
                                    ![w].message = Head(listener[w].queue)._id,
                                    ![w].queue = Tail(@),
                                    ![w].i = 1,
                                    ![w].start_bucket =
                                        local_connections[listener[w].channel],
                                    ![w].sent = <<>>]
    /\ UNCHANGED <<db_messages, local_connections, published, ws,
                   schedVars, groupVars>>

\* conn.send_text(json.dumps(message)) on an open socket: one more frame of
\* this message has gone to the client
GotOne(got, id) == got (+) SetToBag({id})

\* the list the bridge task of connection w iterates:
\* local_connections.get(conversation_id, []), the bucket itself
ForwardTargetsMut(lc, conversation_id, w) ==
    IF \E n \in 1..Len(lc[conversation_id]) : lc[conversation_id][n] = w
    THEN <<w>> ELSE <<>>
ForwardTargets(lc, conversation_id, w) == lc[conversation_id]

\* "except Exception: continue": the bridge task after a send that raised
SendFailedMut(l) == [l EXCEPT !.state = "ended"]
SendFailed(l) == [l EXCEPT !.i = @ + 1]

\* one iteration of "for conn in local_connections.get(conversation_id, [])":
\* the list iterator takes the element at its index, send_text is awaited and
\* an exception of the send is swallowed; past the end the loop is over
ForwardStep(w) ==
    /\ listener[w].state = "forwarding"
    /\ LET bucket == ForwardTargets(local_connections, listener[w].channel, w)
           i == listener[w].i
       IN IF i <= Len(bucket)
          THEN /\ listener' = [listener EXCEPT ![w] =
                       IF ws[bucket[i]].state \in {"open", "saved"}
                       THEN [@ EXCEPT !.i = i + 1,
                                      !.sent = Append(@, bucket[i])]
                       ELSE SendFailed([@ EXCEPT !.sent = Append(@, bucket[i])])]
               /\ ws' = [ws EXCEPT ![bucket[i]] =
                       IF @.state \in {"open", "saved"}
                       THEN [@ EXCEPT !.got = GotOne(@, listener[w].message)]
                       ELSE [@ EXCEPT !.refused = @ \cup {listener[w].message}]]
          ELSE /\ listener' = [listener EXCEPT ![w].state = "listening",
                                               ![w].message = 0, ![w].i = 0,
                                               ![w].start_bucket = <<>>,
                                               ![w].sent = <<>>,
                                               ![w].forwarded = @ + 1]
               /\ ws' = ws
    /\ UNCHANGED <<db_messages, local_connections, published, schedVars, groupVars>>

\* "finally: await pubsub.unsubscribe(channel)" of subscribe_to_channel
unsubscribeMut(l) == l
unsubscribe(l) == [l EXCEPT !.sub = FALSE]

\* the cancelled task is run once more by the event loop: CancelledError is
\* raised where the task waits. Inside subscribe_to_channel it passes the
\* finally clause; in the body of the for loop it leaves the generator
\* suspended at its yield, and the generator is closed, its finally clause
\* run, when the event loop finalizes it
ListenerUnwind(w) ==
    /\ listener[w].state = "cancelled"
    /\ listener[w].sub
    /\ listener' = [listener EXCEPT ![w] = unsubscribe(@)]
    /\ UNCHANGED <<db_messages, local_connections, published, ws,
                   schedVars, groupVars>>

----------------------------------------------------------------------------
(* Specification of the live sessions *)

InitLive ==
    /\ db_messages = <<>>
    /\ local_connections = [c \in ConvIds |-> <<>>]
    /\ published = <<>>
    /\ ws = [w \in Conns |-> NewSocket]
    /\ listener = [w \in Conns |-> NoListener]

\* the conversations the clients of the model connect to
LiveConvs == {"c1", "c2"}

\* the sessions of one process with the bus: clients with a valid token
NextLive ==
    \/ \E w \in Conns, c \in LiveConvs : Connect(w, "tok_u1", c)
    \/ \E w \in Conns : Disconnect(w)
    \/ \E w \in Conns : ShutdownCancel(w)
    \/ \E w \in Conns, data \in Payloads : ReceiveSave(w, data)
    \/ \E w \in Conns : RecordHistory(w)
    \/ \E w \in Conns : ListenerSubscribe(w)
    \/ \E c \in LiveConvs : Publish(c)
    \/ \E w \in Conns : ForwardStart(w)
    \/ \E w \in Conns : ForwardStep(w)

\* the handshake with every kind of token and conversation id
NextHandshake ==
    \/ \E w \in Conns, token \in Tokens, c \in LiveConvs \cup {BadId} :
           Connect(w, token, c)
    \/ \E w \in Conns : Disconnect(w)
    \/ \E w \in Conns, data \in Payloads : ReceiveInvalid(w, data)
    \/ \E w \in Conns, data \in Payloads : ReceiveSave(w, data)
    \/ \E w \in Conns : RecordHistory(w)
    \/ \E w \in Conns : ListenerSubscribe(w)
    \/ \E c \in LiveConvs : StoreDelete(c)

----------------------------------------------------------------------------
(* Specification of the scheduler *)

InitGroup ==
    /\ cache = {}
    /\ group = NoRun
    /\ chat = NoTurn

InitSched ==
    /\ \E h \in InitialHistories : conversations = InitialDocs(h)
    /\ task = [t \in Tasks |-> IdleTask]
    /\ InitLive
    /\ InitGroup

NextSched ==
    \/ \E t \in Tasks, chat_id \in {"c1", BadId}, chunks \in Plans :
           StartDeliver(t, chat_id, chunks)
    \/ \E t \in Tasks : Sleep(t)
    \/ \E t \in Tasks : Fetch(t)
    \/ \E t \in Tasks : Update(t)
    \/ \E t \in Tasks : Result(t)
    \/ RequestInterrupt("c1")
    \/ RequestClear("c1")
    \/ StoreDelete("c1")

SpecSched == InitSched /\ [][NextSched]_vars

\* the scheduler on a worker that runs the task: a sleep of a finite delay
\* ends, and each call of the store returns
SpecSchedFair ==
    /\ InitSched
    /\ [][NextSched]_vars
    /\ \A t \in Tasks : /\ WF_vars(Sleep(t)) /\ WF_vars(Fetch(t))
                        /\ WF_vars(Update(t)) /\ WF_vars(Result(t))

\* the scheduler with a store that may fail at a write
NextStoreFault ==
    \/ \E t \in Tasks, chat_id \in {"c1", BadId}, chunks \in Plans :
           StartDeliver(t, chat_id, chunks)
    \/ \E t \in Tasks : Sleep(t)
    \/ \E t \in Tasks : Fetch(t)
    \/ \E t \in Tasks : Update(t)
    \/ \E t \in Tasks : UpdateFails(t)
    \/ \E t \in Tasks : Result(t)
    \/ RequestInterrupt("c1")
    \/ RequestClear("c1")
    \/ StoreDelete("c1")

SpecStoreFault == InitSched /\ [][NextStoreFault]_vars

\* the sessions start on conversations without history
InitSessions ==
    /\ conversations = InitialDocs(<<>>)
    /\ task = [t \in Tasks |-> IdleTask]
    /\ InitLive
    /\ InitGroup

SpecLive == InitSessions /\ [][NextLive]_vars

SpecHandshake == InitSessions /\ [][NextHandshake]_vars

\* the bridge tasks of the sessions of one conversation, with the event loop
\* going on to run a cancelled task; the sessions end by a disconnect or by
\* another exception out of receive_text
NextBridge ==
    \/ \E w \in Conns : Connect(w, "tok_u1", "c1")
    \/ \E w \in Conns : Disconnect(w)
    \/ \E w \in Conns : ShutdownCancel(w)
    \/ \E w \in Conns : ListenerSubscribe(w)
    \/ Publish("c1")
    \/ \E w \in Conns : ForwardStart(w)
    \/ \E w \in Conns : ForwardStep(w)
    \/ \E w \in Conns : ListenerUnwind(w)

SpecBridge ==
    /\ InitSessions
    /\ [][NextBridge]_vars
    /\ \A w \in Conns : WF_vars(ListenerUnwind(w))

\* the group AI response next to a scheduler delivering one-chunk plans
NextGroup ==
    \/ \E c \in ConvIds, llm \in Replies \cup {LlmFails} : GroupRun(c, llm)
    \/ CacheExpire
    \/ \E t \in Tasks, chunks \in SeqsUpTo(ChunkInfo, 1) :
           StartDeliver(t, "c1", chunks)
    \/ \E t \in Tasks : Sleep(t)
    \/ \E t \in Tasks : Fetch(t)
    \/ \E t \in Tasks : Update(t)
    \/ \E t \in Tasks : Result(t)
    \/ StoreDelete("c1")

SpecGroup == InitSched /\ [][NextGroup]_vars

\* the writers of one conversation side by side: sessions on "c1" and a
\* scheduler run delivering to "c1"
NextRace ==
    \/ \E w \in Conns : Connect(w, "tok_u1", "c1")
    \/ \E w \in Conns : Disconnect(w)
    \/ \E w \in Conns, data \in Payloads : ReceiveSave(w, data)
    \/ \E w \in Conns : RecordHistory(w)
    \/ \E t \in Tasks, chunks \in SeqsUpTo(ChunkInfo, 1) :
           StartDeliver(t, "c1", chunks)
    \/ \E t \in Tasks : Sleep(t)
    \/ \E t \in Tasks : Fetch(t)
    \/ \E t \in Tasks : Update(t)
    \/ \E t \in Tasks : Result(t)

SpecRace == InitSessions /\ [][NextRace]_vars

\* runs of the group AI response next to the receive loops of "c1"
NextSpawn ==
    \/ \E w \in Conns : Connect(w, "tok_u1", "c1")
    \/ \E w \in Conns : Disconnect(w)
    \/ \E w \in Conns, data \in Payloads : ReceiveSave(w, data)
    \/ \E w \in Conns : RecordHistory(w)
    \/ \E llm \in Replies \cup {LlmFails} : GroupRun("c1", llm)

SpecSpawn == InitSched /\ [][NextSpawn]_vars

\* the requests to chat_with_ai: on the group conversation, without chat_id,
\* with an empty message, with a bad token, for an AI that does not exist
ChatRequests ==
    {[ai_id |-> "ai1", token |-> "tok_u1", chat_id |-> "c1", message |-> "hello"],
     [ai_id |-> "ai1", token |-> "tok_u1", chat_id |-> None, message |-> "hello"],
     [ai_id |-> "ai1", token |-> "tok_u1", chat_id |-> "c1", message |-> ""],
     [ai_id |-> "ai1", token |-> "garbage", chat_id |-> "c1", message |-> "hello"],
     [ai_id |-> "ai9", token |-> "tok_u1", chat_id |-> "c1", message |-> "hello"]}

\* the plan of the scheduler next to the turns
TurnPlan == <<[content |-> "Hi", delay_seconds |-> 0]>>

\* the writers of the history of "c1" that build or append assistant and
\* system entries: requests to chat_with_ai, runs of the group AI response,
\* and the scheduler over a plan of one chunk
NextTurns ==
    \/ \E r \in ChatRequests, llm \in Replies \cup {LlmFails} :
           ChatTurn(r.ai_id, r.token, r.chat_id, r.message, llm)
    \/ \E llm \in Replies \cup {LlmFails} : GroupRun("c1", llm)
    \/ \E t \in Tasks : StartDeliver(t, "c1", TurnPlan)
    \/ \E t \in Tasks : Sleep(t)
    \/ \E t \in Tasks : Fetch(t)
    \/ \E t \in Tasks : Update(t)
    \/ \E t \in Tasks : Result(t)

SpecTurns == InitSched /\ [][NextTurns]_vars

\* the three callers of the service's update_conversation_history_record:
\* the receive loop of a session, the group AI response, chat_with_ai
NextCallers ==
    \/ Connect("w1", "tok_u1", "c1")
    \/ \E data \in Payloads : ReceiveSave("w1", data)
    \/ RecordHistory("w1")
    \/ \E llm \in Replies \cup {LlmFails} : GroupRun("c1", llm)
    \/ \E r \in ChatRequests, llm \in Replies \cup {LlmFails} :
           ChatTurn(r.ai_id, r.token, r.chat_id, r.message, llm)

SpecCallers == InitSched /\ [][NextCallers]_vars

----------------------------------------------------------------------------
(* Properties of the scheduler *)

NonNegativeDelays(chunks) == \A i \in 1..Len(chunks) : chunks[i].delay_seconds >= 0

\* the assistant entries of the first n chunks of a plan, in plan order
PlanEntries(chunks, n) == [i \in 1..n |-> AssistantEntry(chunks[i].content)]

StoredHistory(c) == get_sync_conversation_by_id(conversations, c).history

\* C1: a run over a plan of n chunks with non-negative delays, on a
\* conversation that exists, whose interrupted flag is never true during the
\* run and that no other writer touches, ends having appended exactly the n
\* assistant entries of the plan, in plan order, to the persisted history.
C1_PlanDelivered ==
    \A t \in Tasks :
        (/\ task[t].pc = "done"
         /\ task[t].flag_clear /\ task[t].history_kept
         /\ NonNegativeDelays(task[t].chunks))
        => /\ task[t].outcome = "completed"
           /\ StoredHistory(task[t].chat_id) =
                  task[t].history0 \o PlanEntries(task[t].chunks, Len(task[t].chunks))

C1_Witness ==
    \E t \in Tasks :
        /\ task[t].pc = "done" /\ task[t].flag_clear /\ task[t].history_kept
        /\ Len(task[t].chunks) >= 2
        /\ task[t].chunks[1].content # task[t].chunks[2].content
        /\ task[t].chunks[2].delay_seconds > 0
        /\ task[t].history0 # <<>>
        /\ Len(StoredHistory(task[t].chat_id)) = Len(task[t].history0) + Len(task[t].chunks)

\* C2: once the scheduler's check before chunk k has found interrupted = true,
\* the run is over, no chunk k..n is ever written by it, and (unless another
\* writer replaced the history) the chunks 1..k-1 it delivered are still the
\* tail of the persisted history.
C2_InterruptStops ==
    \A t \in Tasks :
        task[t].seen_interrupted # 0
        => /\ task[t].pc = "done"
           /\ \A i \in 1..Len(task[t].written) :
                  task[t].written[i] < task[t].seen_interrupted
           /\ task[t].history_kept
              => StoredHistory(task[t].chat_id) =
                    task[t].history0
                    \o PlanEntries(task[t].chunks, task[t].seen_interrupted - 1)

C2_Witness ==
    \E t \in Tasks :
        /\ task[t].seen_interrupted = 2
        /\ task[t].written = <<1>>
        /\ task[t].history_kept
        /\ Len(task[t].chunks) = 2
        /\ Len(StoredHistory(task[t].chat_id)) = Len(task[t].history0) + 1

----------------------------------------------------------------------------
(* Properties of the live sessions *)

InBucket(w, c) == \E i \in 1..Len(local_connections[c]) : local_connections[c][i] = w
Registered(w) == \E c \in ConvIds : InBucket(w, c)

\* the place of a published message in the order of publication
PubIndex(id) == CHOOSE n \in 1..Len(published) : published[n]._id = id

\* no bridge task still holds the message, waiting or in its for loop
NoPending(id) ==
    \A v \in Conns :
        /\ listener[v].message # id
        /\ \A n \in 1..Len(listener[v].queue) : listener[v].queue[n]._id # id

Offered(w) == BagToSet(ws[w].got) \cup ws[w].refused

AssistantCount(history) ==
    Cardinality({i \in 1..Len(history) : Get(history[i], "role") = "assistant"})

\* C3: a run of automate_group_ai_response that generated a reply leaves the
\* persisted history with exactly one assistant entry more than before, the
\* reply, at its end.
C3_ExactlyOneReply ==
    group.ai_response # None
    => /\ AssistantCount(group.after) = AssistantCount(group.before) + 1
       /\ group.after[Len(group.after)] = AssistantEntry(group.ai_response)

C5_FanOut ==
    \A w \in Conns :
        (Live(w) /\ Registered(w) /\ Subscribed(w))
        => \A j \in 1..Len(listener[w].heard) :
               NoPending(listener[w].heard[j])
               => CopiesIn(listener[w].heard[j], ws[w].got) >= 1

\* C6: a connection that has disconnected is in no bucket of the registry,
\* and every message a bridge ever sent to it was published before it
\* disconnected.
C6_NoSendAfterDisconnect ==
    \A w \in Conns :
        ws[w].state = "disconnected"
        => /\ ~Registered(w)
           /\ \A id \in Offered(w) : PubIndex(id) <= ws[w].gone_at

C6_Witness ==
    \E w, v \in Conns :
        /\ ws[w].state = "disconnected"
        /\ Offered(w) # {}
        /\ Live(v) /\ ws[v].conversation_id = ws[w].conversation_id
        /\ \E id \in BagToSet(ws[v].got) : PubIndex(id) > ws[w].gone_at

\* C7: whenever a session's receive loop has ended, its connection is out of
\* the registry.
C7_UnregisteredOnEveryExit == \A w \in Conns : Ended(w) => ~Registered(w)

\* C8: whenever a session's receive loop has ended, by a disconnect or by an
\* exception, its bridge task is cancelled.
C8_BridgeCancelled ==
    \A w \in Conns : Ended(w) => listener[w].state = "cancelled"

C8_Witness ==
    \E w, v \in Conns :
        /\ ws[w].state = "failed" /\ listener[w].state = "cancelled"
        /\ listener[w].forwarded >= 1
        /\ ws[v].state = "disconnected" /\ listener[v].state = "cancelled"
        /\ listener[v].heard # <<>>

\* the entries of a history that are the user entry of a message
EntriesOf(history, message_obj) ==
    {i \in 1..Len(history) :
        history[i] = UserEntry(message_obj.sender, message_obj.content)}

\* C9: every well-formed inbound message a receive loop has dealt with has
\* an entry of its own in the persisted history of the conversation.
C9_EveryMessageRecorded ==
    \A w \in Conns :
        ws[w].handled >= 1
        => Cardinality(EntriesOf(StoredHistory(ws[w].conversation_id),
                                 ws[w].message_obj)) >= ws[w].handled

\* the user a token stands for, and the checks of the handshake as the
\* contract states them
TokenUser(token) ==
    CASE token = "tok_u1" -> "u1" [] token = "tok_u3" -> "u3" [] OTHER -> None

ChecksPassed(w) ==
    /\ TokenUser(ws[w].token) # None
    /\ ws[w].found
    /\ \E h \in InitialHistories :
          LET p == InitialDocs(h)[ws[w].conversation_id].participants
          IN \E i \in 1..Len(p) : p[i] = TokenUser(ws[w].token)

\* C10: a connection whose token is absent, invalid, expired or without a
\* subject, whose conversation is not found, or whose user is no participant
\* is closed with code 1008, never accepted, registered or given a bridge
\* task; every connection in the registry passed all of these checks.
C10_Handshake ==
    \A w \in Conns :
        /\ (ws[w].state # "new" /\ ~ChecksPassed(w))
           => /\ ws[w].state = "closed"
              /\ ws[w].close_code = PolicyViolation
              /\ ~ws[w].accepted
              /\ ~Registered(w)
              /\ listener[w].state = "none"
        /\ Registered(w) => (ChecksPassed(w) /\ ws[w].accepted)

C10_Witness ==
    \E w, v \in Conns :
        /\ ws[w].state = "closed" /\ ws[w].token = "tok_u3"
        /\ ws[w].conversation_id = "c1" /\ ws[w].found
        /\ ws[w].close_code = PolicyViolation
        /\ Registered(v) /\ ws[v].accepted

\* C11: a payload that is not valid JSON or does not fit the message schema
\* gets exactly one diagnostic text, changes neither the saved messages, the
\* conversation history nor the bus, and leaves the connection open and
\* registered, its bridge task as it was.
C11_InvalidPayload ==
    [][\A w \in Conns :
          ws'[w].invalid = ws[w].invalid + 1
          => /\ Len(ws'[w].diagnostics) = Len(ws[w].diagnostics) + 1
             /\ db_messages' = db_messages
             /\ conversations' = conversations
             /\ published' = published
             /\ ws[w].state = "open" /\ ws'[w].state = "open"
             /\ InBucket(w, ws[w].conversation_id)
             /\ local_connections' = local_connections
             /\ listener' = listener]_vars

\* after the diagnostic the loop has gone on to a well-formed payload
C11_Witness ==
    \E w \in Conns :
        /\ ws[w].invalid = 1 /\ Len(ws[w].diagnostics) = 1
        /\ ws[w].saved_message # 0
        /\ InBucket(w, ws[w].conversation_id)

HasEntry(history, entry) == \E j \in 1..Len(history) : history[j] = entry

\* C12: once the scheduler run on a conversation is over and no receive loop
\* is in the middle of a message, the persisted history holds every entry the
\* writers appended: each chunk the scheduler wrote and the user entry of
\* each message a receive loop took in while the run was delivering.
C12_NoLostAppend ==
    \A t \in Tasks :
        (/\ task[t].pc = "done" /\ task[t].written # <<>>
         /\ \A w \in Conns : ws[w].state # "saved")
        => LET c == task[t].chat_id
           IN /\ \A n \in 1..Len(task[t].written) :
                     HasEntry(StoredHistory(c),
                              AssistantEntry(task[t].chunks[task[t].written[n]].content))
              /\ \A w \in Conns :
                     (ws[w].handled >= 1 /\ ws[w].overlap
                      /\ ws[w].conversation_id = c)
                     => EntriesOf(StoredHistory(c), ws[w].message_obj) # {}

\* a receive loop is in the middle of a message of conversation c
MidTurn(c) == \E w \in Conns : ws[w].state = "saved" /\ ws[w].conversation_id = c

\* C13: while the request path is dealing with a message that came in on a
\* conversation with a chunk plan delivering, the persisted interrupted flag
\* is true; once no message is being dealt with, the flag is false again.
C13_InterruptedAroundTurn ==
    \A c \in {"c1"} :
        /\ (\E w \in Conns : /\ ws[w].state = "saved" /\ ws[w].overlap
                              /\ ws[w].conversation_id = c)
           => conversations[c].interrupted
        /\ ~MidTurn(c) => ~conversations[c].interrupted

\* C14: every chunk the scheduler has appended to the persisted history has
\* been published on the conversation's bus topic as a chat message.
C14_ChunksPublished ==
    \A t \in Tasks :
        \A n \in 1..Len(task[t].written) :
            \E m \in 1..Len(published) :
                /\ published[m].conversation_id = task[t].chat_id
                /\ published[m].content = task[t].chunks[task[t].written[n]].content

\* C15: in one run the history write of a chunk is attempted at most once,
\* in plan order; a write that reports no modification or raises ends the
\* run, the failed chunk being the last one ever attempted.
C15_NoRetry ==
    \A t \in Tasks :
        /\ \A i, j \in 1..Len(task[t].attempted) :
               i < j => task[t].attempted[i] < task[t].attempted[j]
        /\ task[t].outcome \in {"not_modified", "PyMongoError"}
           => /\ task[t].pc = "done"
              /\ task[t].attempted # <<>>
              /\ task[t].attempted[Len(task[t].attempted)] = task[t].k

C15_Witness ==
    \E t \in Tasks :
        /\ task[t].outcome = "not_modified"
        /\ Len(task[t].chunks) = 2
        /\ task[t].attempted = <<1>> /\ task[t].written = <<>>

\* C16: when the conversation is not found at the scheduler's fetch before
\* chunk k, the run ends there by the loop's break, and no write of chunk k
\* or of a later chunk is ever attempted.
C16_NotFoundStops ==
    \A t \in Tasks :
        task[t].missing_at # 0
        => /\ task[t].pc = "done"
           /\ task[t].outcome = "not_found"
           /\ \A i \in 1..Len(task[t].attempted) :
                  task[t].attempted[i] < task[t].missing_at

C16_Witness ==
    \E t \in Tasks :
        /\ task[t].missing_at = 2
        /\ task[t].written = <<1>>
        /\ Len(task[t].chunks) = 2
        /\ task[t].outcome = "not_found"

\* the messages on the bus that a receive loop of this process published:
\* those with an _id of the messages collection
FromReceiveLoop(message) == message._id < 100

C18_Unsubscribed ==
    \A w \in Conns :
        /\ (listener[w].state = "cancelled") ~> ~listener[w].sub
        /\ Ended(w) ~> ~listener[w].sub

\* a session has ended, its bridge task had been given a message and was
\* cancelled, and the subscription is off the bus
C18_Witness ==
    \E w \in Conns :
        /\ Ended(w) /\ listener[w].state = "cancelled"
        /\ listener[w].heard # <<>>
        /\ ~listener[w].sub

InSeq(v, seq) == \E n \in 1..Len(seq) : seq[n] = v
CountIn(v, seq) == Cardinality({n \in 1..Len(seq) : seq[n] = v})

\* C19: when the for loop of a bridge task over the bucket ends, every
\* connection that was in the bucket when the loop started and is still in
\* it has had send_text called on it exactly once in this loop.
C19_StableIteration ==
    [][\A w \in Conns :
          (listener[w].state = "forwarding" /\ listener'[w].state = "listening")
          => \A v \in Conns :
                (/\ InSeq(v, listener[w].start_bucket)
                 /\ InBucket(v, listener[w].channel))
                => CountIn(v, listener[w].sent) = 1]_vars

\* C24: at every point of a run the chunks it has written are the first j
\* chunks of the plan, each once and in plan order, for some j from 0 to n;
\* unless another writer replaced the history, the persisted history is the
\* history the run started from followed by the entries of those j chunks.
C24_WrittenIsPrefix ==
    \A t \in Tasks :
        /\ Len(task[t].written) <= Len(task[t].chunks)
        /\ task[t].written = [i \in 1..Len(task[t].written) |-> i]
        /\ (task[t].history_kept /\ task[t].pc # "idle")
           => StoredHistory(task[t].chat_id) =
                  task[t].history0
                  \o PlanEntries(task[t].chunks, Len(task[t].written))

\* in the middle of a run: the first chunk is written, the second is waiting
C24_Witness ==
    \E t \in Tasks :
        /\ task[t].pc = "sleep" /\ task[t].k = 2
        /\ task[t].written = <<1>>
        /\ task[t].chunks[1].content # task[t].chunks[2].content
        /\ task[t].history_kept

\* C25: a run that has stopped because its check found interrupted = true
\* stays stopped: no step after that, a clearing of the flag included, has
\* the run attempt or write a chunk or change the persisted history.
C25_NeverResumed ==
    [][\A t \in Tasks :
          task[t].outcome = "interrupted"
          => /\ task'[t].pc = "done" /\ task'[t].outcome = "interrupted"
             /\ task'[t].written = task[t].written
             /\ task'[t].attempted = task[t].attempted
             /\ conversations'[task[t].chat_id].exists
                => conversations'[task[t].chat_id].history =
                       conversations[task[t].chat_id].history]_vars

\* a run stopped before its second chunk by the flag, and the flag has been
\* cleared since
C25_Witness ==
    \E t \in Tasks :
        /\ task[t].outcome = "interrupted" /\ task[t].pc = "done"
        /\ task[t].written = <<1>> /\ Len(task[t].chunks) = 2
        /\ conversations[task[t].chat_id].exists
        /\ ~conversations[task[t].chat_id].interrupted

\* C27: the step in which the scheduler writes a chunk changes no field of
\* the conversation but its history, and leaves every other conversation
\* alone; a step that changes the interrupted flag of a conversation is never
\* a step of the scheduler, so a flag set between two chunks is as it was
\* set at the next check unless the request path cleared it.
C27_WriteKeepsFlag ==
    [][/\ \A t \in Tasks :
            (task[t].pc = "update" /\ task'[t].pc # "update")
            => \A c \in ConvIds :
                   conversations'[c] =
                       [conversations[c] EXCEPT
                            !.history = conversations'[c].history]
       /\ \A c \in ConvIds :
            (/\ conversations[c].exists /\ conversations'[c].exists
             /\ conversations'[c].interrupted # conversations[c].interrupted)
            => \A t \in Tasks : /\ task'[t].pc = task[t].pc
                                /\ task'[t].k = task[t].k
                                /\ task'[t].written = task[t].written]_vars

\* the flag was set after the check for the first chunk, the chunk has been
\* written and the flag is still true
C27_Witness ==
    \E t \in Tasks :
        /\ task[t].pc = "result" /\ task[t].written = <<1>>
        /\ Len(task[t].chunks) = 2
        /\ conversations[task[t].chat_id].interrupted
        /\ StoredHistory(task[t].chat_id) =
               task[t].history0 \o PlanEntries(task[t].chunks, 1)

\* C23: the write of chunk k does not look at the flag again: when a new turn
\* has set interrupted to true and cleared it again between the scheduler's
\* check for chunk k and its write, chunk k of the old plan is written all
\* the same (unless the conversation was deleted), and such an interleaving
\* exists.
C23_StrayChunk ==
    \A t \in Tasks :
        (task[t].stray # 0 /\ task[t].history_kept)
        => /\ InSeq(task[t].stray, task[t].written)
           /\ task[t].seen_interrupted = 0
              \/ task[t].seen_interrupted > task[t].stray

\* the second chunk of the plan was written after the flag had been set and
\* cleared, the flag is false and the run went on to complete the plan
C23_Witness ==
    \E t \in Tasks :
        /\ task[t].stray = 2 /\ task[t].written = <<1, 2>>
        /\ task[t].outcome = "completed"
        /\ task[t].history_kept
        /\ ~conversations[task[t].chat_id].interrupted
        /\ StoredHistory(task[t].chat_id) =
               task[t].history0 \o PlanEntries(task[t].chunks, 2)

\* the ways a run over a plan with non-negative delays ends
PlanOutcomes == {"completed", "not_found", "interrupted", "not_modified"}

\* C26: every run over a plan with non-negative delays comes to its end, and
\* at its end it has written the whole plan, or it stopped at chunk k, the
\* first chunk whose conversation was missing, whose check found the flag
\* true or whose write was not confirmed, having written the chunks before k
\* (and chunk k itself when only the confirmation was missing).
C26_Terminates ==
    /\ \A t \in Tasks :
         (Running(t) /\ NonNegativeDelays(task[t].chunks))
         ~> (task[t].pc = "done")
    /\ [](\A t \in Tasks :
            (task[t].pc = "done" /\ NonNegativeDelays(task[t].chunks))
            => /\ task[t].outcome \in PlanOutcomes
               /\ task[t].outcome = "completed"
                  => Len(task[t].written) = Len(task[t].chunks)
               /\ task[t].outcome \in {"not_found", "interrupted"}
                  => Len(task[t].written) = task[t].k - 1
               /\ task[t].outcome = "not_modified"
                  => Len(task[t].written) \in {task[t].k - 1, task[t].k})

\* a run over a plan of two chunks that ended at its second chunk, whose write
\* landed but was not confirmed
C26_Witness ==
    \E t \in Tasks :
        /\ task[t].pc = "done" /\ Len(task[t].chunks) = 2
        /\ NonNegativeDelays(task[t].chunks)
        /\ task[t].chunks[2].delay_seconds > 0
        /\ task[t].outcome = "not_modified"
        /\ task[t].written = <<1, 2>>

\* the connections in the bucket of a conversation
Members(c) == {w \in Conns : InBucket(w, c)}

\* no connection but the members of the bucket was ever registered on c
NeverLeft(c) ==
    \A v \in Conns :
        \/ InBucket(v, c)
        \/ ws[v].state \in {"new", "closed"}
        \/ ws[v].conversation_id # c

\* C28: with k live connections registered on a conversation, none ever
\* unregistered and no send failed, a message that the bridge tasks of all k
\* have been given and have finished forwarding has been sent k times to
\* each of the k connections.
C28_SentKTimes ==
    \A c \in LiveConvs :
        (/\ \A w \in Members(c) : Live(w) /\ listener[w].state # "cancelled"
         /\ NeverLeft(c))
        => \A n \in 1..Len(published) :
               (/\ \A w \in Members(c) : InSeq(published[n]._id, listener[w].heard)
                /\ NoPending(published[n]._id))
               => \A w \in Members(c) :
                      CopiesIn(published[n]._id, ws[w].got) = Cardinality(Members(c))

\* two live connections on one conversation, each holding two copies of a
\* message
C28_Witness ==
    \E c \in LiveConvs :
        /\ Cardinality(Members(c)) = 2 /\ NeverLeft(c)
        /\ \A w \in Members(c) : Live(w)
        /\ \E n \in 1..Len(published) :
              /\ NoPending(published[n]._id)
              /\ \A w \in Members(c) :
                    /\ InSeq(published[n]._id, listener[w].heard)
                    /\ CopiesIn(published[n]._id, ws[w].got) = 2

\* C30: a send of the bridge task that fails, on a connection that is in the
\* bucket but no longer open, leaves the task in its loop over the bucket, at
\* the next connection, with the same message and with the messages that
\* wait for it untouched.
C30_SendFailureSkipped ==
    [][\A w \in Conns :
          (/\ listener[w].state = "forwarding"
           /\ listener'[w].sent # listener[w].sent
           /\ listener'[w].sent # <<>>
           /\ ~Live(listener'[w].sent[Len(listener'[w].sent)]))
          => /\ listener'[w].state = "forwarding"
             /\ listener'[w].i = listener[w].i + 1
             /\ listener'[w].message = listener[w].message
             /\ listener'[w].queue = listener[w].queue
             /\ local_connections' = local_connections]_vars

\* a connection whose session failed is still first in the bucket; the bridge
\* of the connection after it was refused by it for two messages and has sent
\* both messages to its own connection
C30_Witness ==
    \E c \in LiveConvs : \E v, u \in Conns :
        /\ Len(local_connections[c]) = 2
        /\ local_connections[c][1] = v /\ local_connections[c][2] = u
        /\ ws[v].state = "failed" /\ Live(u)
        /\ listener[u].state = "listening" /\ listener[u].forwarded = 2
        /\ Cardinality(ws[v].refused) = 2
        /\ \A id \in ws[v].refused : CopiesIn(id, ws[u].got) >= 1

----------------------------------------------------------------------------
(* Properties of the AI turns *)

SystemCount(history) ==
    Cardinality({i \in 1..Len(history) : Get(history[i], "role") = "system"})

\* at most one system entry, and that one first
OneSystemAtHead(history) ==
    \A i \in 1..Len(history) : Get(history[i], "role") = "system" => i = 1

C22_OneNewAssistantEntry ==
    chat.ai_response # None
    => chat.history = Append(chat.asked, AssistantEntry(chat.ai_response))

====
